---- MODULE Spec2Model ----
(***************************************************************************)
(* Model of UnityAudioPlayer (src/blophy-audio.cpp): the playback state    *)
(* machine, the per-callback mixing engine, the output stream handle and   *)
(* the delayed-play worker.                                                *)
(*                                                                         *)
(* m_currentTime, m_volume and the frame arithmetic of onAudioReady are    *)
(* C++ float (IEEE-754 binary32).  They are modelled bit-exactly: a float  *)
(* is a record [s, m, e] standing for s * m * 2^e with a 24 bit mantissa,  *)
(* and every operation rounds to nearest-even as the hardware does.        *)
(***************************************************************************)
EXTENDS Integers, Sequences, FiniteSets, TLC

(***************************************************************************)
(* binary32 arithmetic                                                     *)
(***************************************************************************)
Pow2(k) == 2 ^ k

MantBits == 24

FZero == [s |-> 1, m |-> 0, e |-> 0]

\* quiet NaN: s = 0 marks "not a number"; every comparison with it is false
FNaN == [s |-> 0, m |-> 0, e |-> 0]

IsNaN(a) == a.s = 0

RECURSIVE BitLen(_)
BitLen(n) == IF n = 0 THEN 0 ELSE 1 + BitLen(n \div 2)

\* s * M * 2^e rounded to the nearest float, ties to even.  M < 2^31.  When
\* M carries a sticky bit in its lowest position it has at least 26 bits.
RoundNorm(s, M, e) ==
    IF M = 0 THEN FZero
    ELSE LET L == BitLen(M) IN
         IF L <= MantBits
         THEN [s |-> s, m |-> M * Pow2(MantBits - L), e |-> e - (MantBits - L)]
         ELSE LET sh   == L - MantBits
                  q    == M \div Pow2(sh)
                  r    == M % Pow2(sh)
                  half == Pow2(sh - 1)
                  up   == (r > half) \/ (r = half /\ q % 2 = 1)
                  m1   == IF up THEN q + 1 ELSE q
              IN IF m1 = Pow2(MantBits)
                 THEN [s |-> s, m |-> Pow2(MantBits - 1), e |-> e + sh + 1]
                 ELSE [s |-> s, m |-> m1, e |-> e + sh]

\* static_cast<float>(int)
FromInt(n) == IF n < 0 THEN RoundNorm(-1, 0 - n, 0) ELSE RoundNorm(1, n, 0)

MagLess(a, b) ==
    IF a.m = 0 THEN b.m # 0
    ELSE IF b.m = 0 THEN FALSE
    ELSE a.e < b.e \/ (a.e = b.e /\ a.m < b.m)

\* operator< on float
FLess(a, b) ==
    /\ ~IsNaN(a)
    /\ ~IsNaN(b)
    /\ IF a.s = 1 /\ b.s = 1 THEN MagLess(a, b)
       ELSE IF a.s = -1 /\ b.s = -1 THEN MagLess(b, a)
       ELSE a.s = -1 /\ b.s = 1

\* operator>= on float
FGeq(a, b) == ~IsNaN(a) /\ ~IsNaN(b) /\ ~FLess(a, b)

\* std::min(a, b) is (b < a) ? b : a ; std::max(a, b) is (a < b) ? b : a
FMin(a, b) == IF FLess(b, a) THEN b ELSE a
FMax(a, b) == IF FLess(a, b) THEN b ELSE a

\* M * 2^-d with the bits shifted out collected in a sticky lowest bit
ShiftRightSticky(M, d) ==
    IF d = 0 THEN M
    ELSE IF d >= 31 THEN (IF M # 0 THEN 1 ELSE 0)
    ELSE LET q == M \div Pow2(d)
             r == M % Pow2(d)
         IN IF r # 0 /\ q % 2 = 0 THEN q + 1 ELSE q

\* operator+ on float
FAdd(a, b) ==
    IF IsNaN(a) \/ IsNaN(b) THEN FNaN
    ELSE IF a.m = 0 THEN b
    ELSE IF b.m = 0 THEN a
    ELSE LET aBig == ~MagLess(a, b)
             x    == IF aBig THEN a ELSE b
             y    == IF aBig THEN b ELSE a
             d    == x.e - y.e
             X    == x.m * 8
             Y    == ShiftRightSticky(y.m * 8, d)
         IN IF x.s = y.s THEN RoundNorm(x.s, X + Y, x.e - 3)
            ELSE RoundNorm(x.s, X - Y, x.e - 3)

\* operator* on float: the 48 bit product is built from 12 bit limbs
FMul(a, b) ==
    IF IsNaN(a) \/ IsNaN(b) THEN FNaN
    ELSE IF a.m = 0 \/ b.m = 0 THEN FZero
    ELSE LET ah   == a.m \div 4096
             al   == a.m % 4096
             bh   == b.m \div 4096
             bl   == b.m % 4096
             mid  == ah * bl + al * bh
             low  == (mid % 4096) * 4096 + al * bl
             hi   == ah * bh + (mid \div 4096) + (low \div Pow2(24))
             lo   == low % Pow2(24)
             top  == lo \div Pow2(18)
             M    == hi * 64 + top
             Ms   == IF lo % Pow2(18) # 0 /\ M % 2 = 0 THEN M + 1 ELSE M
         IN RoundNorm(a.s * b.s, Ms, a.e + b.e + 18)

\* k further quotient bits of rem / d by long division: <<quotient, remainder>>
RECURSIVE LongDiv(_, _, _, _)
LongDiv(q, rem, d, k) ==
    IF k = 0 THEN <<q, rem>>
    ELSE LET r2 == rem * 2
         IN IF r2 >= d THEN LongDiv(q * 2 + 1, r2 - d, d, k - 1)
            ELSE LongDiv(q * 2, r2, d, k - 1)

\* operator/ on float, divisor non-zero
FDiv(a, b) ==
    IF IsNaN(a) \/ IsNaN(b) \/ b.m = 0 THEN FNaN
    ELSE IF a.m = 0 THEN FZero
    ELSE LET qr == LongDiv(a.m \div b.m, a.m % b.m, b.m, 27)
             M  == qr[1] * 2 + (IF qr[2] # 0 THEN 1 ELSE 0)
         IN RoundNorm(a.s * b.s, M, a.e - b.e - 28)

\* static_cast<int>(float): truncation toward zero
FToInt(a) ==
    IF a.m = 0 THEN 0
    ELSE IF a.e >= 0 THEN a.s * a.m * Pow2(a.e)
    ELSE IF 0 - a.e >= MantBits THEN 0
    ELSE a.s * (a.m \div Pow2(0 - a.e))


(***************************************************************************)
(* Bounds of the model                                                     *)
(***************************************************************************)
\* longest decoded clip, in frames
MaxFrames == 3

\* largest numFrames the device asks for in one callback
MaxNumFrames == 2

\* streams the device opens over the life of the player
MaxStreams == 2

\* a callback mixes only while the position is at most this many frames
MaxPosFrames == 5

\* playWithDelay requests over the life of the player
MaxDelayRequests == 2

(***************************************************************************)
(* Inputs                                                                  *)
(***************************************************************************)
Channels == {1, 2}

SampleRates == {48000}

NoClip == [rate |-> 0, channels |-> 0, frames |-> 0]

\* what the decoder can hand back: interleaved samples (frames * channels of
\* them, possibly none at all), a sample rate and a channel count
DecodedClips ==
    {[rate |-> r, channels |-> ch, frames |-> n] :
        r \in SampleRates, ch \in Channels, n \in 0..MaxFrames}

\* a decoded clip of one second: 48000 mono frames at 48000 Hz
LongClip == [rate |-> 48000, channels |-> 1, frames |-> 48000]

\* numFrames of the callbacks of a device that works in bursts of 512 frames
LongCallbacks == {512}

\* the handle Create() gave out for the player: g_nextPlayerId starts at 1
PlayerHandle == 1

\* handles the host may pass to an export: null, the player's, and one that
\* Create() never returned
Handles == {0, PlayerHandle, 2}

\* how loadAudioData ends: no bytes could be read, the decoder threw, or the
\* decoder returned
LoadFailures == {"noData", "decodeError"}

ClipPaths == {"assets/a.ogg"}

\* arguments of setCurrentTime / offsetTime: NaN, -1.0f, one frame at 48 kHz,
\* 1000.0f
TimeArgs ==
    {FNaN, FromInt(-1), FDiv(FromInt(1), FromInt(48000)), FromInt(1000)}

\* arguments of setVolume: NaN, -0.5f, 0.5f, 2.0f
VolumeArgs ==
    {FNaN, FDiv(FromInt(-1), FromInt(2)), FDiv(FromInt(1), FromInt(2)),
     FromInt(2)}

\* arguments of playWithDelay: 0.2f and 0.5f
DelayArgs == {FDiv(FromInt(1), FromInt(5)), FDiv(FromInt(1), FromInt(2))}

(***************************************************************************)
(* State                                                                   *)
(***************************************************************************)
VARIABLES
    alive,              \* the player object exists (Create .. Destroy)
    m_state,            \* AudioState
    m_currentTime,      \* float, seconds
    m_volume,           \* float
    m_loop,             \* bool
    m_clipPath,         \* std::string
    m_delayTime,        \* float, seconds
    m_audioStream,      \* shared_ptr<AudioStream>: the stream held, or null
    opened,             \* streams opened by builder.openStream so far
    leaked,             \* streams let go of without close() being called
    m_sampleRate,       \* int
    m_channels,         \* int
    m_totalFrames,      \* int
    m_interleavedData,  \* vector<float>: its size and whose samples it holds
    m_audioData,        \* the decoded clip a load in progress is taking over
    m_delayThread,      \* std::thread running scheduleDelayedPlay
    m_delayCancelled,   \* atomic<bool>
    callerPc,           \* where the host thread is blocked, if anywhere
    inFlight,           \* the callback that has read the position and is
                        \* yet to write it back, if any
    out,                \* audioData as the callback that just returned left it
    cbResult,           \* DataCallbackResult of that callback
    lastOp,             \* history: the operation that ran last
    lastArg,            \* history: the volume handed to lastOp
    pre,                \* history: state and stream before lastOp
    call,               \* history: what lastOp was given and what it returned
    delayLog            \* history: delayed-play requests and their firing

vars == <<alive, m_state, m_currentTime, m_volume, m_loop, m_clipPath,
          m_delayTime, m_audioStream, opened, leaked, m_sampleRate,
          m_channels, m_totalFrames, m_interleavedData, m_audioData,
          m_delayThread, m_delayCancelled, callerPc, inFlight, out,
          cbResult, lastOp, lastArg, pre, call, delayLog>>

AUDIO_STATE_IDLE == "IDLE"
AUDIO_STATE_PLAYING == "PLAYING"
AUDIO_STATE_PAUSED == "PAUSED"
AUDIO_STATE_STOPPED == "STOPPED"

\* m_audioStream == nullptr
NoStream ==
    [id |-> 0, status |-> "none", rate |-> 0, channels |-> 0,
     callback |-> "none"]

NoData == [len |-> 0, clip |-> NoClip]

\* one silent output sample, and one sample copied from m_interleavedData:
\* which clip, which index, and the volume it was multiplied by
Silence == [clip |-> NoClip, src |-> -1, vol |-> FZero]

Sample(i) == [clip |-> m_interleavedData.clip, src |-> i, vol |-> m_volume]

\* what a call returns: nothing, a float, a bool or an AudioState
RetVoid == [type |-> "void", f |-> FZero, b |-> FALSE, s |-> ""]

RetFloat(x) == [type |-> "float", f |-> x, b |-> FALSE, s |-> ""]

RetBool(x) == [type |-> "bool", f |-> FZero, b |-> x, s |-> ""]

RetState(x) == [type |-> "state", f |-> FZero, b |-> FALSE, s |-> x]

\* a call on the player's handle that loaded nothing, was no callback and
\* returned nothing
NoCall ==
    [handle |-> PlayerHandle, export |-> "", load |-> "none",
     numFrames |-> 0, ret |-> RetVoid]

\* no callback is between its read and its write of the position
NoCallback ==
    [stream |-> 0, numFrames |-> 0, time |-> FZero, result |-> "None"]

NoDelayLog == [requests |-> 0, worker |-> 0, fired |-> <<>>, superseded |-> {}]

\* UnityAudioPlayer::UnityAudioPlayer
Init ==
    /\ alive = TRUE
    /\ m_state = AUDIO_STATE_IDLE
    /\ m_currentTime = FZero
    /\ m_volume = FromInt(1)
    /\ m_loop = FALSE
    /\ m_clipPath = ""
    /\ m_delayTime = FZero
    /\ m_audioStream = NoStream
    /\ opened = 0
    /\ leaked = 0
    /\ m_sampleRate = 48000
    /\ m_channels = 2
    /\ m_totalFrames = 0
    /\ m_interleavedData = NoData
    /\ m_audioData = NoClip
    /\ m_delayThread = "none"
    /\ m_delayCancelled = FALSE
    /\ callerPc = "idle"
    /\ inFlight = NoCallback
    /\ out = <<>>
    /\ cbResult = "None"
    /\ lastOp = "Create"
    /\ lastArg = FZero
    /\ pre = [state |-> AUDIO_STATE_IDLE, stream |-> 0, opened |-> 0,
              openOK |-> FALSE, startOK |-> FALSE]
    /\ call = NoCall
    /\ delayLog = NoDelayLog

(***************************************************************************)
(* Helpers                                                                 *)
(***************************************************************************)
MinInt(a, b) == IF a < b THEN a ELSE b

\* the fields the transport operations work on
Player ==
    [state |-> m_state, stream |-> m_audioStream, opened |-> opened,
     leaked |-> leaked, time |-> m_currentTime]

\* history: the state and stream an operation started from, and what the
\* device answered to the openStream and requestStart it made, if any
PreIO(openOK, startOK) ==
    [state |-> m_state, stream |-> m_audioStream.id, opened |-> opened,
     openOK |-> openOK, startOK |-> startOK]

Pre == PreIO(FALSE, FALSE)

\* play() reaches openStream unless it resumes, and requestStart if that
\* succeeded
Opens(p, openOK) == p.state # AUDIO_STATE_PAUSED /\ openOK

Starts(p, openOK, startOK) == Opens(p, openOK) /\ startOK

\* static_cast<float>(m_totalFrames) / m_sampleRate for every frame count and
\* sample rate a player can hold, computed once
MusicLengths ==
    [n \in (0..MaxFrames) \cup {LongClip.frames},
     r \in SampleRates \cup {LongClip.rate} |-> FDiv(FromInt(n), FromInt(r))]

\* UnityAudioPlayer::getMusicLength
getMusicLength == MusicLengths[m_totalFrames, m_sampleRate]

(***************************************************************************)
(* Transport: unpause, play, pause, stop on a Player record                *)
(***************************************************************************)
unpause(p) ==
    IF p.stream.id # 0 /\ p.state = AUDIO_STATE_PAUSED
    THEN [p EXCEPT !.stream.status = "started",
                   !.state = AUDIO_STATE_PLAYING]
    ELSE p

\* builder.openStream(m_audioStream): oboe resets the caller's shared_ptr
\* before it opens, so the stream held so far is let go of (without close())
\* whether or not the open succeeds.
openStream(p, openOK) ==
    LET dropped == IF p.stream.id # 0 /\ p.stream.status # "closed"
                   THEN p.leaked + 1 ELSE p.leaked
    IN IF openOK
       THEN [p EXCEPT !.stream = [id |-> p.opened + 1, status |-> "open",
                                  rate |-> m_sampleRate,
                                  channels |-> m_channels,
                                  callback |-> "this"],
                      !.opened = p.opened + 1,
                      !.leaked = dropped]
       ELSE [p EXCEPT !.stream = NoStream, !.leaked = dropped]

\* play() that forgets "m_state = AUDIO_STATE_PLAYING" after requestStart
play_stateNotSet(p, openOK, startOK) ==
    IF p.state = AUDIO_STATE_PAUSED THEN unpause(p)
    ELSE LET q == openStream(p, openOK)
         IN IF ~openOK THEN q
            ELSE IF startOK THEN [q EXCEPT !.stream.status = "started"]
            ELSE q

\* play() without the "if paused, unpause() and return" shortcut
play_noResume(p, openOK, startOK) ==
    LET q == openStream(p, openOK)
    IN IF ~openOK THEN q
       ELSE IF startOK
       THEN [q EXCEPT !.stream.status = "started",
                      !.state = AUDIO_STATE_PLAYING]
       ELSE q

play(p, openOK, startOK) ==
    IF p.state = AUDIO_STATE_PAUSED THEN unpause(p)
    ELSE LET q == openStream(p, openOK)
         IN IF ~openOK THEN q
            ELSE IF startOK
            THEN [q EXCEPT !.stream.status = "started",
                           !.state = AUDIO_STATE_PLAYING]
            ELSE q

pause(p) ==
    IF p.stream.id # 0 /\ p.state = AUDIO_STATE_PLAYING
    THEN [p EXCEPT !.stream.status = "paused",
                   !.state = AUDIO_STATE_PAUSED]
    ELSE p

stop(p) ==
    IF p.stream.id # 0
    THEN [p EXCEPT !.stream.status = "stopped",
                   !.state = AUDIO_STATE_STOPPED,
                   !.time = FZero]
    ELSE p

\* setCurrentTime that only clamps from below
setCurrentTime_noUpperClamp(time) == FMax(FZero, time)

\* m_currentTime = max(0, min(time, getMusicLength()))
setCurrentTime(time) == FMax(FZero, FMin(time, getMusicLength))

\* setVolume that only clamps from above
setVolume_noLowerClamp(volume) == FMin(FromInt(1), volume)

\* m_volume = max(0, min(1, volume))
setVolume(volume) == FMax(FZero, FMin(FromInt(1), volume))

\* play() gets a stream from the device unless it only resumes
CanPlay(p, openOK) ==
    p.state = AUDIO_STATE_PAUSED \/ ~openOK \/ p.opened < MaxStreams

SetPlayer(p) ==
    /\ m_state' = p.state
    /\ m_audioStream' = p.stream
    /\ opened' = p.opened
    /\ leaked' = p.leaked
    /\ m_currentTime' = p.time
    /\ inFlight' = inFlight

\* g_audioPlayers.find(h) != end() when Destroy never erased the entry
Registered_neverErased(h) == h = PlayerHandle

\* g_audioPlayers.find(h) != g_audioPlayers.end(): Create() registered the
\* player under PlayerHandle and Destroy erases it
Registered(h) == alive /\ h = PlayerHandle

\* the host thread may issue a control call on the player's handle
HostReady == Registered(PlayerHandle) /\ callerPc = "idle"

\* history; the device has taken back the buffer of the last callback
Hist(op, openOK, startOK) ==
    /\ lastOp' = op
    /\ pre' = PreIO(openOK, startOK)
    /\ lastArg' = FZero
    /\ out' = <<>>
    /\ cbResult' = "None"

DoneIO(op, openOK, startOK) ==
    /\ Hist(op, openOK, startOK)
    /\ call' = NoCall

Done(op) == DoneIO(op, FALSE, FALSE)

\* the stream, and the callback it has in flight
streamVars == <<m_audioStream, opened, leaked, inFlight>>

clipVars == <<m_clipPath, m_sampleRate, m_channels, m_totalFrames,
              m_interleavedData, m_audioData>>

delayVars == <<m_delayTime, m_delayThread, m_delayCancelled, callerPc,
               delayLog>>

(***************************************************************************)
(* Control calls (the C exports look the player up and forward)            *)
(***************************************************************************)
Play ==
    /\ HostReady
    /\ \E openOK, startOK \in BOOLEAN :
        /\ CanPlay(Player, openOK)
        /\ SetPlayer(play(Player, openOK, startOK))
        /\ DoneIO("play", Opens(Player, openOK),
                  Starts(Player, openOK, startOK))
    /\ UNCHANGED <<alive, m_volume, m_loop, clipVars, delayVars>>

Pause ==
    /\ HostReady
    /\ SetPlayer(pause(Player))
    /\ Done("pause")
    /\ UNCHANGED <<alive, m_volume, m_loop, clipVars, delayVars>>

Stop ==
    /\ HostReady
    /\ SetPlayer(stop(Player))
    /\ Done("stop")
    /\ UNCHANGED <<alive, m_volume, m_loop, clipVars, delayVars>>

UnPause ==
    /\ HostReady
    /\ SetPlayer(unpause(Player))
    /\ Done("unpause")
    /\ UNCHANGED <<alive, m_volume, m_loop, clipVars, delayVars>>

SetCurrentTime ==
    /\ HostReady
    /\ \E time \in TimeArgs : m_currentTime' = setCurrentTime(time)
    /\ Done("setCurrentTime")
    /\ UNCHANGED <<alive, m_state, streamVars, m_volume, m_loop, clipVars,
                   delayVars>>

OffsetTime ==
    /\ HostReady
    /\ \E offset \in TimeArgs :
        m_currentTime' = setCurrentTime(FAdd(m_currentTime, offset))
    /\ Done("offsetTime")
    /\ UNCHANGED <<alive, m_state, streamVars, m_volume, m_loop, clipVars,
                   delayVars>>

\* resetTime carried out as stop()
ResetTime_viaStop ==
    /\ HostReady
    /\ SetPlayer(stop([Player EXCEPT !.time = FZero]))
    /\ Done("resetTime")
    /\ UNCHANGED <<alive, m_volume, m_loop, clipVars, delayVars>>

ResetTime ==
    /\ HostReady
    /\ m_currentTime' = FZero
    /\ Done("resetTime")
    /\ UNCHANGED <<alive, m_state, streamVars, m_volume, m_loop, clipVars,
                   delayVars>>

RestartTime ==
    /\ HostReady
    /\ LET p0 == [Player EXCEPT !.time = FZero]
       IN IF m_state = AUDIO_STATE_PLAYING
          THEN \E openOK, startOK \in BOOLEAN :
                /\ CanPlay(stop(p0), openOK)
                /\ SetPlayer(play(stop(p0), openOK, startOK))
                /\ DoneIO("restartTime", Opens(stop(p0), openOK),
                          Starts(stop(p0), openOK, startOK))
          ELSE /\ SetPlayer(p0)
               /\ Done("restartTime")
    /\ UNCHANGED <<alive, m_volume, m_loop, clipVars, delayVars>>

\* restartTime() on a Player record
restartTime(p, openOK, startOK) ==
    LET p0 == [p EXCEPT !.time = FZero]
    IN IF p.state = AUDIO_STATE_PLAYING
       THEN play(stop(p0), openOK, startOK)
       ELSE p0

\* the JNI binding ResetTime of native-lib.cpp: it looks the player up and
\* calls restartTime()
Java_net_blophy_nova_oboe_MainActivity_ResetTime ==
    /\ HostReady
    /\ \E openOK, startOK \in BOOLEAN :
        /\ m_state = AUDIO_STATE_PLAYING
            => CanPlay(stop([Player EXCEPT !.time = FZero]), openOK)
        /\ m_state # AUDIO_STATE_PLAYING => (~openOK /\ ~startOK)
        /\ SetPlayer(restartTime(Player, openOK, startOK))
        /\ Hist("restartTime",
                m_state = AUDIO_STATE_PLAYING /\ openOK,
                m_state = AUDIO_STATE_PLAYING /\ openOK /\ startOK)
    /\ call' = [NoCall EXCEPT
                    !.export = "Java_net_blophy_nova_oboe_MainActivity_ResetTime"]
    /\ UNCHANGED <<alive, m_volume, m_loop, clipVars, delayVars>>

\* the JNI binding RestartTime of native-lib.cpp: it looks the player up and
\* calls resetTime()
Java_net_blophy_nova_oboe_MainActivity_RestartTime ==
    /\ HostReady
    /\ m_currentTime' = FZero
    /\ Hist("resetTime", FALSE, FALSE)
    /\ call' = [NoCall EXCEPT
                    !.export = "Java_net_blophy_nova_oboe_MainActivity_RestartTime"]
    /\ UNCHANGED <<alive, m_state, streamVars, m_volume, m_loop, clipVars,
                   delayVars>>

SetVolume ==
    /\ HostReady
    /\ \E volume \in VolumeArgs :
        /\ m_volume' = setVolume(volume)
        /\ lastArg' = volume
    /\ lastOp' = "setVolume"
    /\ pre' = Pre
    /\ out' = <<>>
    /\ cbResult' = "None"
    /\ call' = NoCall
    /\ UNCHANGED <<alive, m_state, m_currentTime, streamVars, m_loop,
                   clipVars, delayVars>>

SetLoop ==
    /\ HostReady
    /\ \E loop \in BOOLEAN : m_loop' = loop
    /\ Done("setLoop")
    /\ UNCHANGED <<alive, m_state, m_currentTime, streamVars, m_volume,
                   clipVars, delayVars>>

\* setClip / loadAudioData: the file cannot be read or the decoder throws
\* (only m_clipPath changes, false is returned), or the decoder hands back a
\* buffer, which is taken over whatever its size (true is returned)
SetClip ==
    /\ HostReady
    /\ \E path \in ClipPaths : m_clipPath' = path
    /\ \/ \E why \in LoadFailures :
            /\ UNCHANGED <<m_sampleRate, m_channels, m_totalFrames,
                           m_interleavedData>>
            /\ call' = [NoCall EXCEPT !.load = why, !.ret = RetBool(FALSE)]
       \/ \E res \in DecodedClips :
            /\ m_sampleRate' = res.rate
            /\ m_channels' = res.channels
            /\ m_totalFrames' = (res.frames * res.channels) \div res.channels
            /\ m_interleavedData' =
                    [len |-> res.frames * res.channels, clip |-> res]
            /\ call' = [NoCall EXCEPT !.load = "decoded",
                                      !.ret = RetBool(TRUE)]
    /\ m_audioData' = NoClip
    /\ Hist("setClip", FALSE, FALSE)
    /\ UNCHANGED <<alive, m_state, m_currentTime, streamVars, m_volume,
                   m_loop, delayVars>>

\* setClip on a file the decoder turns into the one-second clip
SetLongClip ==
    /\ HostReady
    /\ \E path \in ClipPaths : m_clipPath' = path
    /\ m_sampleRate' = LongClip.rate
    /\ m_channels' = LongClip.channels
    /\ m_totalFrames' =
            (LongClip.frames * LongClip.channels) \div LongClip.channels
    /\ m_interleavedData' =
            [len |-> LongClip.frames * LongClip.channels, clip |-> LongClip]
    /\ m_audioData' = NoClip
    /\ call' = [NoCall EXCEPT !.load = "decoded", !.ret = RetBool(TRUE)]
    /\ Hist("setClip", FALSE, FALSE)
    /\ UNCHANGED <<alive, m_state, m_currentTime, streamVars, m_volume,
                   m_loop, delayVars>>

(***************************************************************************)
(* loadAudioData statement by statement, for a load that runs while the    *)
(* device calls back: callerPc names the assignment the host thread is     *)
(* about to make, m_audioData is what the decoder handed back.             *)
(***************************************************************************)
\* setClip up to the return of loader.Load
LoadBegin ==
    /\ HostReady
    /\ \E path \in ClipPaths : m_clipPath' = path
    /\ \E res \in DecodedClips : m_audioData' = res
    /\ callerPc' = "loadSampleRate"
    /\ Done("loadBegin")
    /\ UNCHANGED <<alive, m_state, m_currentTime, streamVars, m_volume,
                   m_loop, m_sampleRate, m_channels, m_totalFrames,
                   m_interleavedData, m_delayTime, m_delayThread,
                   m_delayCancelled, delayLog>>

\* m_sampleRate = m_audioData->sampleRate
LoadSampleRate ==
    /\ alive
    /\ callerPc = "loadSampleRate"
    /\ m_sampleRate' = m_audioData.rate
    /\ callerPc' = "loadChannels"
    /\ Done("loadSampleRate")
    /\ UNCHANGED <<alive, m_state, m_currentTime, streamVars, m_volume,
                   m_loop, m_clipPath, m_channels, m_totalFrames,
                   m_interleavedData, m_audioData, m_delayTime,
                   m_delayThread, m_delayCancelled, delayLog>>

\* m_channels = m_audioData->channelCount
LoadChannels ==
    /\ alive
    /\ callerPc = "loadChannels"
    /\ m_channels' = m_audioData.channels
    /\ callerPc' = "loadTotalFrames"
    /\ Done("loadChannels")
    /\ UNCHANGED <<alive, m_state, m_currentTime, streamVars, m_volume,
                   m_loop, m_clipPath, m_sampleRate, m_totalFrames,
                   m_interleavedData, m_audioData, m_delayTime,
                   m_delayThread, m_delayCancelled, delayLog>>

\* m_totalFrames = m_audioData->samples.size() / m_channels
LoadTotalFrames ==
    /\ alive
    /\ callerPc = "loadTotalFrames"
    /\ m_totalFrames' =
            (m_audioData.frames * m_audioData.channels) \div m_channels
    /\ callerPc' = "loadSamples"
    /\ Done("loadTotalFrames")
    /\ UNCHANGED <<alive, m_state, m_currentTime, streamVars, m_volume,
                   m_loop, m_clipPath, m_sampleRate, m_channels,
                   m_interleavedData, m_audioData, m_delayTime,
                   m_delayThread, m_delayCancelled, delayLog>>

\* m_interleavedData = std::move(m_audioData->samples); return true
LoadSamples ==
    /\ alive
    /\ callerPc = "loadSamples"
    /\ m_interleavedData' =
            [len |-> m_audioData.frames * m_audioData.channels,
             clip |-> m_audioData]
    /\ m_audioData' = NoClip
    /\ callerPc' = "idle"
    /\ Hist("setClip", FALSE, FALSE)
    /\ call' = [NoCall EXCEPT !.load = "decoded", !.ret = RetBool(TRUE)]
    /\ UNCHANGED <<alive, m_state, m_currentTime, streamVars, m_volume,
                   m_loop, m_clipPath, m_sampleRate, m_channels,
                   m_totalFrames, m_delayTime, m_delayThread,
                   m_delayCancelled, delayLog>>

\* what each export returns when it does not find the handle
DefaultReturn ==
    [op \in {"Destroy", "Play", "PlayWithDelay", "Pause", "Stop", "UnPause",
             "SetCurrentTime", "OffsetTime", "ResetTime", "RestartTime",
             "SetClip", "SetVolume", "SetLoop", "GetCurrentTime",
             "GetVolume", "GetLoop", "IsPlaying", "GetState"} |->
        CASE op \in {"GetCurrentTime", "GetVolume"} -> RetFloat(FZero)
          [] op \in {"GetLoop", "IsPlaying"} -> RetBool(FALSE)
          [] op = "GetState" -> RetState(AUDIO_STATE_IDLE)
          [] OTHER -> RetVoid]

\* what the getters return for the player
Getters ==
    [GetCurrentTime |-> RetFloat(m_currentTime),
     GetVolume      |-> RetFloat(m_volume),
     GetLoop        |-> RetBool(m_loop),
     IsPlaying      |-> RetBool(m_state = AUDIO_STATE_PLAYING),
     GetState       |-> RetState(m_state)]

\* everything but the history
playerVars == <<alive, m_state, m_currentTime, m_volume, m_loop, clipVars,
                streamVars, delayVars>>

\* an export called with a handle that g_audioPlayers does not hold
CallUnknown ==
    /\ callerPc = "idle"
    /\ \E h \in Handles, op \in DOMAIN DefaultReturn :
        /\ ~Registered(h)
        /\ call' = [NoCall EXCEPT !.handle = h, !.export = op,
                                  !.ret = DefaultReturn[op]]
    /\ Hist("unknownHandle", FALSE, FALSE)
    /\ UNCHANGED playerVars

\* a getter called with the player's handle
Get ==
    /\ HostReady
    /\ \E op \in DOMAIN Getters :
        call' = [NoCall EXCEPT !.export = op, !.ret = Getters[op]]
    /\ Hist("get", FALSE, FALSE)
    /\ UNCHANGED playerVars

(***************************************************************************)
(* onAudioReady, run by the device on its callback thread                  *)
(***************************************************************************)
\* generateSilence that writes nothing
generateSilence_nothingWritten(numFrames, channels) == <<>>

\* generateSilence(buffer, numFrames, channels)
generateSilence(numFrames, channels) ==
    IF numFrames * channels > 0
    THEN [k \in 1..(numFrames * channels) |-> Silence]
    ELSE <<>>

\* the first copy loop reading source channel c instead of c % m_channels
CopyFrames_noChannelWrap(currentFrame, framesToCopy, outputChannels) ==
    IF framesToCopy > 0
    THEN [k \in 1..(framesToCopy * outputChannels) |->
            LET i == (k - 1) \div outputChannels
                c == (k - 1) % outputChannels
                srcIndex == (currentFrame + i) * m_channels
            IN Sample(srcIndex + c)]
    ELSE <<>>

\* the first copy loop: framesToCopy frames from currentFrame on, output
\* channel c taken from source channel c % m_channels
CopyFrames(currentFrame, framesToCopy, outputChannels) ==
    IF framesToCopy > 0
    THEN [k \in 1..(framesToCopy * outputChannels) |->
            LET i == (k - 1) \div outputChannels
                c == (k - 1) % outputChannels
                srcIndex == (currentFrame + i) * m_channels
            IN Sample(srcIndex + (c % m_channels))]
    ELSE <<>>

\* the wrap loop: remainingFrames frames from source frame i % m_totalFrames
WrapFrames(remainingFrames, outputChannels) ==
    IF remainingFrames > 0
    THEN [k \in 1..(remainingFrames * outputChannels) |->
            LET i == (k - 1) \div outputChannels
                c == (k - 1) % outputChannels
                srcIndex == (i % m_totalFrames) * m_channels
            IN Sample(srcIndex + (c % m_channels))]
    ELSE <<>>

\* static_cast<int>(m_currentTime * m_sampleRate)
CurrentFrame == FToInt(FMul(m_currentTime, FromInt(m_sampleRate)))

\* the device calls back on the stream the player holds while that stream
\* runs or is on its way to being paused
CallbackStream == m_audioStream.status \in {"started", "paused"}

\* the non-loop branch that never reports the end of the clip
NonLoopEnd_neverStops(buffer, advanced) ==
    [out |-> buffer, time |-> advanced, state |-> m_state,
     result |-> "Continue"]

\* the non-loop branch after the silence fill: advance by the whole callback
\* and stop once the position has reached the clip length
NonLoopEnd(buffer, advanced) ==
    IF FGeq(advanced, getMusicLength)
    THEN [out |-> buffer, time |-> advanced,
          state |-> AUDIO_STATE_STOPPED, result |-> "Stop"]
    ELSE [out |-> buffer, time |-> advanced, state |-> m_state,
          result |-> "Continue"]

\* what one call of onAudioReady(audioStream, audioData, numFrames) leaves:
\* the buffer, the position, the state and the result
onAudioReady(numFrames) ==
    LET outputChannels  == m_audioStream.channels
        frameTime       == FDiv(FromInt(numFrames),
                                FromInt(m_audioStream.rate))
        currentFrame    == CurrentFrame
        framesRemaining == m_totalFrames - currentFrame
        framesToCopy    == MinInt(numFrames, framesRemaining)
        copied          == CopyFrames(currentFrame, framesToCopy,
                                      outputChannels)
        remainingFrames == numFrames - framesToCopy
        advanced        == FAdd(m_currentTime, frameTime)
    IN IF m_state # AUDIO_STATE_PLAYING \/ m_interleavedData.len = 0
       THEN [out    |-> generateSilence(numFrames, outputChannels),
             time   |-> m_currentTime,
             state  |-> m_state,
             result |-> "Continue"]
       ELSE IF framesToCopy < numFrames
       THEN IF m_loop
            THEN [out    |-> copied \o WrapFrames(remainingFrames,
                                                  outputChannels),
                  time   |-> FDiv(FromInt(remainingFrames),
                                  FromInt(m_sampleRate)),
                  state  |-> m_state,
                  result |-> "Continue"]
            ELSE NonLoopEnd(copied \o generateSilence(remainingFrames,
                                                      outputChannels),
                            advanced)
       ELSE [out    |-> copied,
             time   |-> advanced,
             state  |-> m_state,
             result |-> "Continue"]

\* one callback for numFrames frames; the device stops a stream whose
\* callback returned Stop
DeviceCallback(numFrames) ==
    /\ \E r \in {onAudioReady(numFrames)} :
           /\ out' = r.out
           /\ m_currentTime' = r.time
           /\ m_state' = r.state
           /\ cbResult' = r.result
           /\ call' = [NoCall EXCEPT !.numFrames = numFrames]
           /\ m_audioStream' = IF r.result = "Stop"
                               THEN [m_audioStream EXCEPT !.status = "stopped"]
                               ELSE m_audioStream
    /\ lastOp' = "onAudioReady"
    /\ pre' = Pre
    /\ lastArg' = FZero
    /\ UNCHANGED <<alive, opened, leaked, inFlight, m_volume, m_loop,
                   clipVars, delayVars>>

OnAudioReady ==
    /\ alive
    /\ CallbackStream
    /\ CurrentFrame <= MaxPosFrames
    /\ \E numFrames \in 1..MaxNumFrames : DeviceCallback(numFrames)

\* the callbacks of a device that works in bursts of 512 frames
OnAudioReadyLong ==
    /\ alive
    /\ CallbackStream
    /\ \E numFrames \in LongCallbacks : DeviceCallback(numFrames)

(***************************************************************************)
(* onAudioReady in two steps, for control calls that run while a callback  *)
(* is under way: nothing orders the callback's accesses to m_currentTime   *)
(* and m_state with those of the host thread.  The first step is the       *)
(* callback up to and including its reads of the position (the test at     *)
(* 211, the copy loops, the load of "m_currentTime += frameTime"), the     *)
(* second is its store of the position, the end test and the return.       *)
(***************************************************************************)
OnAudioReadyBegin ==
    /\ alive
    /\ CallbackStream
    /\ inFlight = NoCallback
    /\ CurrentFrame <= MaxPosFrames
    /\ m_state = AUDIO_STATE_PLAYING
    /\ m_interleavedData.len > 0
    /\ \E numFrames \in 1..MaxNumFrames :
        \E r \in {onAudioReady(numFrames)} :
           /\ out' = r.out
           /\ inFlight' = [stream |-> m_audioStream.id,
                           numFrames |-> numFrames,
                           time |-> r.time,
                           result |-> r.result]
    /\ cbResult' = "None"
    /\ call' = NoCall
    /\ lastOp' = "onAudioReadyBegin"
    /\ pre' = Pre
    /\ lastArg' = FZero
    /\ UNCHANGED <<alive, m_state, m_currentTime, m_audioStream, opened,
                   leaked, m_volume, m_loop, clipVars, delayVars>>

\* the device stops the stream whose callback returned Stop
OnAudioReadyEnd ==
    /\ alive
    /\ inFlight # NoCallback
    /\ m_currentTime' = inFlight.time
    /\ m_state' = IF inFlight.result = "Stop"
                  THEN AUDIO_STATE_STOPPED ELSE m_state
    /\ m_audioStream' =
            IF inFlight.result = "Stop"
                /\ m_audioStream.id = inFlight.stream
                /\ m_audioStream.status # "closed"
            THEN [m_audioStream EXCEPT !.status = "stopped"]
            ELSE m_audioStream
    /\ cbResult' = inFlight.result
    /\ call' = [NoCall EXCEPT !.numFrames = inFlight.numFrames]
    /\ inFlight' = NoCallback
    /\ lastOp' = "onAudioReady"
    /\ pre' = Pre
    /\ lastArg' = FZero
    /\ UNCHANGED <<alive, out, opened, leaked, m_volume, m_loop, clipVars,
                   delayVars>>

\* onErrorAfterClose that reacts only while the player is Playing
onErrorAfterClose_onlyWhenPlaying(p) ==
    IF p.state = AUDIO_STATE_PLAYING
    THEN [p EXCEPT !.state = AUDIO_STATE_STOPPED]
    ELSE p

\* UnityAudioPlayer::onErrorAfterClose
onErrorAfterClose(p) == [p EXCEPT !.state = AUDIO_STATE_STOPPED]

\* onErrorAfterClose: the device has closed the stream and reports the error
OnErrorAfterClose ==
    /\ alive
    /\ m_audioStream.status \in {"open", "started", "paused", "stopped"}
    /\ SetPlayer(onErrorAfterClose(
                    [Player EXCEPT !.stream.status = "closed"]))
    /\ Done("onErrorAfterClose")
    /\ UNCHANGED <<alive, m_volume, m_loop, clipVars, delayVars>>

(***************************************************************************)
(* Delayed play: playWithDelay on the host thread, scheduleDelayedPlay on  *)
(* the worker thread.  m_delayThread is "none" (not joinable), "waiting"   *)
(* (inside wait_for), "expired" (wait_for timed out, before the flag is    *)
(* tested again) or "finished" (returned, still joinable).                 *)
(***************************************************************************)
ThreadRunning == m_delayThread \in {"waiting", "expired"}

\* playWithDelay up to the join: with a worker still running the host thread
\* blocks in m_delayThread.join(), otherwise the new thread starts at once
PlayWithDelay ==
    /\ HostReady
    /\ delayLog.requests < MaxDelayRequests
    /\ \E delay \in DelayArgs : m_delayTime' = delay
    /\ m_delayCancelled' = FALSE
    /\ IF ThreadRunning
       THEN /\ callerPc' = "join"
            /\ delayLog' = [delayLog EXCEPT
                    !.requests = @ + 1,
                    !.superseded = @ \cup {delayLog.worker}]
            /\ UNCHANGED m_delayThread
       ELSE /\ m_delayThread' = "waiting"
            /\ delayLog' = [delayLog EXCEPT
                    !.requests = @ + 1,
                    !.worker = delayLog.requests + 1]
            /\ UNCHANGED callerPc
    /\ Done("playWithDelay")
    /\ UNCHANGED <<alive, m_state, m_currentTime, streamVars, m_volume,
                   m_loop, clipVars>>

\* m_delayThread.join() returns and the new thread is started
PlayWithDelayJoined ==
    /\ alive
    /\ callerPc = "join"
    /\ m_delayThread = "finished"
    /\ m_delayThread' = "waiting"
    /\ callerPc' = "idle"
    /\ delayLog' = [delayLog EXCEPT !.worker = delayLog.requests]
    /\ Done("playWithDelayJoined")
    /\ UNCHANGED <<alive, m_state, m_currentTime, streamVars, m_volume,
                   m_loop, clipVars, m_delayTime, m_delayCancelled>>

\* wait_for returns true: the predicate saw m_delayCancelled set
DelayCancelled ==
    /\ alive
    /\ m_delayThread = "waiting"
    /\ m_delayCancelled
    /\ m_delayThread' = "finished"
    /\ Done("delayCancelled")
    /\ UNCHANGED <<alive, m_state, m_currentTime, streamVars, m_volume,
                   m_loop, clipVars, m_delayTime, m_delayCancelled, callerPc,
                   delayLog>>

\* wait_for times out with the predicate false
DelayTimeout ==
    /\ alive
    /\ m_delayThread = "waiting"
    /\ ~m_delayCancelled
    /\ m_delayThread' = "expired"
    /\ Done("delayTimeout")
    /\ UNCHANGED <<alive, m_state, m_currentTime, streamVars, m_volume,
                   m_loop, clipVars, m_delayTime, m_delayCancelled, callerPc,
                   delayLog>>

\* the worker calling play() after the timeout without testing the flag again
DelayFire_noRecheck ==
    /\ alive
    /\ m_delayThread = "expired"
    /\ \E openOK, startOK \in BOOLEAN :
        /\ CanPlay(Player, openOK)
        /\ SetPlayer(play(Player, openOK, startOK))
        /\ DoneIO("delayedPlay", Opens(Player, openOK),
                  Starts(Player, openOK, startOK))
    /\ m_delayThread' = "finished"
    /\ delayLog' = [delayLog EXCEPT !.fired = Append(@, delayLog.worker)]
    /\ UNCHANGED <<alive, m_volume, m_loop, clipVars, m_delayTime,
                   m_delayCancelled, callerPc>>

\* if (!m_delayCancelled) play();
DelayFire ==
    /\ alive
    /\ m_delayThread = "expired"
    /\ ~m_delayCancelled
    /\ \E openOK, startOK \in BOOLEAN :
        /\ CanPlay(Player, openOK)
        /\ SetPlayer(play(Player, openOK, startOK))
        /\ DoneIO("delayedPlay", Opens(Player, openOK),
                  Starts(Player, openOK, startOK))
    /\ m_delayThread' = "finished"
    /\ delayLog' = [delayLog EXCEPT !.fired = Append(@, delayLog.worker)]
    /\ UNCHANGED <<alive, m_volume, m_loop, clipVars, m_delayTime,
                   m_delayCancelled, callerPc>>

\* the flag was set between the timeout and the test
DelaySkip ==
    /\ alive
    /\ m_delayThread = "expired"
    /\ m_delayCancelled
    /\ m_delayThread' = "finished"
    /\ Done("delaySkipped")
    /\ UNCHANGED <<alive, m_state, m_currentTime, streamVars, m_volume,
                   m_loop, clipVars, m_delayTime, m_delayCancelled, callerPc,
                   delayLog>>

(***************************************************************************)
(* Destroy: ~UnityAudioPlayer sets the flag, notifies, joins the worker,   *)
(* then closes and releases the stream.                                    *)
(***************************************************************************)
DestroyBegin ==
    /\ HostReady
    /\ m_delayCancelled' = TRUE
    /\ callerPc' = "dtorJoin"
    /\ Done("DestroyBegin")
    /\ UNCHANGED <<alive, m_state, m_currentTime, streamVars, m_volume,
                   m_loop, clipVars, m_delayTime, m_delayThread, delayLog>>

DestroyEnd ==
    /\ alive
    /\ callerPc = "dtorJoin"
    /\ ~ThreadRunning
    /\ m_delayThread' = "none"
    /\ m_audioStream' = NoStream
    /\ alive' = FALSE
    /\ callerPc' = "idle"
    /\ Done("Destroy")
    /\ UNCHANGED <<m_state, m_currentTime, opened, leaked, inFlight,
                   m_volume, m_loop, clipVars, m_delayTime, m_delayCancelled,
                   delayLog>>

(***************************************************************************)
(* Specifications                                                          *)
(***************************************************************************)
\* transport, seeking, clip loading and the mixing callback at full volume
Next ==
    \/ Play
    \/ Pause
    \/ Stop
    \/ UnPause
    \/ SetCurrentTime
    \/ OffsetTime
    \/ ResetTime
    \/ RestartTime
    \/ SetLoop
    \/ SetClip
    \/ OnAudioReady
    \/ OnErrorAfterClose

Spec == Init /\ [][Next]_vars

\* transport and the delayed-play worker, up to destruction
NextDelay ==
    \/ Play
    \/ Pause
    \/ Stop
    \/ UnPause
    \/ OnErrorAfterClose
    \/ PlayWithDelay
    \/ PlayWithDelayJoined
    \/ DelayCancelled
    \/ DelayTimeout
    \/ DelayFire
    \/ DelaySkip
    \/ DestroyBegin
    \/ DestroyEnd

SpecDelay == Init /\ [][NextDelay]_vars

\* the same with the threads scheduled: a wait_for returns when its timeout
\* is over or its predicate holds, a worker that has woken runs on, and a
\* join returns once the worker has finished
SpecDelayFair ==
    /\ SpecDelay
    /\ WF_vars(DelayCancelled)
    /\ WF_vars(DelayTimeout)
    /\ WF_vars(DelayFire)
    /\ WF_vars(DelaySkip)
    /\ WF_vars(PlayWithDelayJoined)

\* the volume, and the mixing callback that applies it
NextVolume ==
    \/ SetVolume
    \/ SetClip
    \/ SetLoop
    \/ Play
    \/ Stop
    \/ OnAudioReady

SpecVolume == Init /\ [][NextVolume]_vars

\* the handle table: calls on the player's handle up to Destroy, and calls
\* on handles the table does not hold
NextHandles ==
    \/ Play
    \/ Pause
    \/ Stop
    \/ SetVolume
    \/ SetLoop
    \/ Get
    \/ CallUnknown
    \/ DestroyBegin
    \/ DestroyEnd

SpecHandles == Init /\ [][NextHandles]_vars

\* a clip loaded statement by statement while the device calls back
NextLoad ==
    \/ Play
    \/ Stop
    \/ LoadBegin
    \/ LoadSampleRate
    \/ LoadChannels
    \/ LoadTotalFrames
    \/ LoadSamples
    \/ OnAudioReady

SpecLoad == Init /\ [][NextLoad]_vars

\* playing the one-second clip to its end, without looping, on a device
\* that calls back for 512 frames at a time
NextClipEnd ==
    \/ Play
    \/ SetVolume
    \/ SetCurrentTime
    \/ SetLongClip
    \/ OnAudioReadyLong

SpecClipEnd == Init /\ [][NextClipEnd]_vars

\* stop and the seeks of the host thread against a callback under way
NextRace ==
    \/ Play
    \/ Stop
    \/ SetCurrentTime
    \/ ResetTime
    \/ SetClip
    \/ OnAudioReadyBegin
    \/ OnAudioReadyEnd

SpecRace == Init /\ [][NextRace]_vars

\* the setters and seeks in every state of the transport, no callback
NextSetters ==
    \/ Play
    \/ Pause
    \/ Stop
    \/ SetClip
    \/ SetVolume
    \/ SetLoop
    \/ SetCurrentTime
    \/ OffsetTime
    \/ ResetTime

SpecSetters == Init /\ [][NextSetters]_vars

\* ResetTime and RestartTime through the C exports and through the JNI
\* bindings
NextEntryPoints ==
    \/ Play
    \/ Pause
    \/ Stop
    \/ SetClip
    \/ SetCurrentTime
    \/ ResetTime
    \/ RestartTime
    \/ Java_net_blophy_nova_oboe_MainActivity_ResetTime
    \/ Java_net_blophy_nova_oboe_MainActivity_RestartTime

SpecEntryPoints == Init /\ [][NextEntryPoints]_vars

(***************************************************************************)
(* Properties                                                              *)
(***************************************************************************)
ClipLoaded == m_interleavedData.len > 0

\* C1: play() from Idle or Stopped, with openStream and requestStart both
\* succeeding, leaves the player Playing and holding a newly opened, started
\* stream whose data callback is the player.
C1_PlayOpensAndStarts ==
    (/\ lastOp = "play"
     /\ pre.state \in {AUDIO_STATE_IDLE, AUDIO_STATE_STOPPED}
     /\ pre.openOK
     /\ pre.startOK)
    => /\ m_state = AUDIO_STATE_PLAYING
       /\ m_audioStream.id = pre.opened + 1
       /\ m_audioStream.status = "started"
       /\ m_audioStream.callback = "this"

C1_Witness ==
    /\ lastOp = "play"
    /\ pre.state = AUDIO_STATE_STOPPED
    /\ pre.openOK
    /\ pre.startOK
    /\ m_state = AUDIO_STATE_PLAYING

\* C2: play() while Playing is a no-op: the state stays Playing, the stream
\* held before is still the one held, and no further stream has been opened.
C2_PlayIdempotent ==
    (lastOp = "play" /\ pre.state = AUDIO_STATE_PLAYING)
    => /\ m_state = AUDIO_STATE_PLAYING
       /\ m_audioStream.id = pre.stream
       /\ opened = pre.opened

\* C3: stop() from Playing or Paused leaves the player Stopped at position 0
\* with its stream closed and no stream held any more.
C3_StopClosesStream ==
    (lastOp = "stop"
        /\ pre.state \in {AUDIO_STATE_PLAYING, AUDIO_STATE_PAUSED})
    => /\ m_state = AUDIO_STATE_STOPPED
       /\ m_currentTime = FZero
       /\ m_audioStream = NoStream

\* C4: pause() in Playing moves to Paused; pause() in any other state changes
\* neither state, position nor stream; a callback that runs while the state
\* is Paused leaves the position as it is.
C4_PauseFreezes ==
    [][/\ (lastOp' = "pause" /\ m_state = AUDIO_STATE_PLAYING)
            => (m_state' = AUDIO_STATE_PAUSED
                    /\ m_currentTime' = m_currentTime)
       /\ (lastOp' = "pause" /\ m_state # AUDIO_STATE_PLAYING)
            => UNCHANGED <<m_state, m_currentTime, m_audioStream, opened>>
       /\ (lastOp' = "onAudioReady" /\ m_state = AUDIO_STATE_PAUSED)
            => m_currentTime' = m_currentTime]_vars

\* C5: play() or unpause() in Paused moves to Playing by starting the stream
\* already held: no stream is opened and the position is left as it was;
\* unpause() in any other state changes nothing.
C5_ResumeKeepsStream ==
    [][/\ (lastOp' \in {"play", "unpause"} /\ m_state = AUDIO_STATE_PAUSED)
            => /\ m_state' = AUDIO_STATE_PLAYING
               /\ m_audioStream'.id = m_audioStream.id
               /\ m_audioStream'.id # 0
               /\ m_audioStream'.status = "started"
               /\ opened' = opened
               /\ m_currentTime' = m_currentTime
       /\ (lastOp' = "unpause" /\ m_state # AUDIO_STATE_PAUSED)
            => UNCHANGED <<m_state, m_currentTime, m_audioStream, opened>>
      ]_vars

C5_Witness ==
    /\ lastOp = "unpause"
    /\ pre.state = AUDIO_STATE_PAUSED
    /\ m_state = AUDIO_STATE_PLAYING
    /\ m_currentTime # FZero
    /\ opened = pre.opened

\* a callback that mixed (the player was Playing with a clip) without looping
MixedNoLoop ==
    /\ lastOp = "onAudioReady"
    /\ pre.state = AUDIO_STATE_PLAYING
    /\ ClipLoaded
    /\ ~m_loop

\* the callback ran out of source frames: it filled up with silence
RanShort == \E k \in DOMAIN out : out[k] = Silence

SourceFrames(buffer, outputChannels) ==
    [j \in 1..(Len(buffer) \div outputChannels) |->
        buffer[(j - 1) * outputChannels + 1].src \div m_channels]

InOrder(frames) ==
    \A j \in 1..(Len(frames) - 1) :
        frames[j + 1] = (frames[j] + 1) % m_totalFrames

\* C7: with loop enabled, consecutive callbacks emit the source frames in
\* order, wrapping from the last frame to frame 0: within a callback, and
\* from the last frame of one callback to the first frame of the next.
C7_LoopLaw ==
    [][(/\ lastOp' = "onAudioReady"
        /\ m_state = AUDIO_STATE_PLAYING
        /\ ClipLoaded
        /\ m_loop)
       => LET now  == SourceFrames(out', m_audioStream.channels)
              prev == SourceFrames(out, m_audioStream.channels)
          IN /\ InOrder(now)
             /\ (lastOp = "onAudioReady" /\ pre.state = AUDIO_STATE_PLAYING
                    /\ Len(prev) > 0 /\ Len(now) > 0)
                => now[1] = (prev[Len(prev)] + 1) % m_totalFrames]_vars

\* C8: after setCurrentTime or offsetTime, whatever the argument,
\* 0 <= getCurrentTime() <= getMusicLength().
C8_SeekClamped ==
    lastOp \in {"setCurrentTime", "offsetTime"}
    => /\ FGeq(m_currentTime, FZero)
       /\ FGeq(getMusicLength, m_currentTime)

C8_Witness ==
    /\ lastOp = "offsetTime"
    /\ ClipLoaded
    /\ m_currentTime = getMusicLength

\* clamp(v, 0, 1)
Clamp01(v) ==
    IF FLess(v, FZero) THEN FZero
    ELSE IF FLess(FromInt(1), v) THEN FromInt(1)
    ELSE v

\* C9: the stored volume is within [0, 1] in every state, and right after
\* setVolume(v) it is clamp(v, 0, 1) (v a number).
C9_VolumeClamped ==
    /\ FGeq(m_volume, FZero)
    /\ FGeq(FromInt(1), m_volume)
    /\ (lastOp = "setVolume" /\ ~IsNaN(lastArg))
        => m_volume = Clamp01(lastArg)

C9_Witness ==
    /\ lastOp = "setVolume"
    /\ FLess(lastArg, FZero)
    /\ m_volume = FZero

\* C10: a delayed play that was still pending when a later playWithDelay was
\* issued never fires play().
C10_EarlierDelayCancelled ==
    \A i \in 1..Len(delayLog.fired) :
        delayLog.fired[i] \notin delayLog.superseded

\* C11: playWithDelay does not keep its caller waiting for a delay to
\* elapse: the host thread is never blocked inside playWithDelay while a
\* delayed play is still waiting for its timer.
C11_PlayWithDelayReturns ==
    ~(callerPc = "join" /\ m_delayThread = "waiting")

\* C12: once the player is destroyed no worker thread is left, the worker
\* has not called play() with the cancellation flag set, no stream is held,
\* and every stream the player opened has been closed.
C12_DestroyReleases ==
    /\ (lastOp = "delayedPlay") => ~m_delayCancelled
    /\ ~alive => /\ m_delayThread = "none"
                 /\ m_audioStream = NoStream
                 /\ leaked = 0

\* the load that just ran failed: no bytes, a decoder error, or a decode that
\* produced an empty sample buffer
LoadFailed ==
    /\ lastOp = "setClip"
    /\ \/ call.load \in LoadFailures
       \/ call.load = "decoded" /\ m_interleavedData.len = 0

\* C13: a load that fails returns false and leaves the sample buffer, the
\* sample rate, the channel count and the total frame count as they were.
C13_FailedLoadKeepsClip ==
    [][LoadFailed'
        => /\ call'.ret = RetBool(FALSE)
           /\ UNCHANGED <<m_interleavedData, m_sampleRate, m_channels,
                          m_totalFrames>>]_vars

\* play() ran openStream and either that or requestStart failed
PlayFailed ==
    /\ lastOp = "play"
    /\ pre.state # AUDIO_STATE_PAUSED
    /\ ~(pre.openOK /\ pre.startOK)

\* C14: after a play() whose openStream or requestStart failed the state is
\* the one before the call and the player holds no stream.
C14_FailedPlayKeepsNothing ==
    PlayFailed => (m_state = pre.state /\ m_audioStream = NoStream)

\* C15: restartTime() leaves the position at 0; called in Playing it leaves
\* the player Playing, called in any other state it leaves the state as it
\* was (so the state is the one before the call, or Playing).
C15_RestartTime ==
    lastOp = "restartTime"
    => /\ m_currentTime = FZero
       /\ m_state = pre.state

\* a callback that mixed a clip of fewer channels than the stream it fills
MixedNarrowClip ==
    /\ lastOp = "onAudioReady"
    /\ pre.state = AUDIO_STATE_PLAYING
    /\ ClipLoaded
    /\ m_channels < m_audioStream.channels

\* C16: when the clip has fewer channels than the output, output channel c
\* of every copied frame is sample (c mod m_channels) of the source frame
\* that output channel 0 of that frame was taken from, times the volume.
C16_ChannelWrap ==
    MixedNarrowClip
    => LET oc == m_audioStream.channels
       IN \A k \in DOMAIN out :
            LET c     == (k - 1) % oc
                first == out[k - c]
            IN out[k] # Silence
               => /\ first # Silence
                  /\ out[k].src = (first.src \div m_channels) * m_channels
                                    + (c % m_channels)
                  /\ out[k].vol = m_volume
                  /\ out[k].clip = m_interleavedData.clip

C16_Witness ==
    /\ MixedNarrowClip
    /\ m_channels = 1
    /\ m_audioStream.channels = 2
    /\ m_volume # FromInt(1)
    /\ Len(out) >= 4
    /\ out[3] # Silence
    /\ out[3] = out[4]
    /\ out[3].src = out[1].src + 1

\* C17: an export called with a handle that was never created or is already
\* destroyed changes nothing of the player and returns 0.0 (float getters),
\* false (bool getters), Idle (GetState) or nothing; once the player is
\* destroyed no call changes it any more.
C17_UnknownHandleNoOp ==
    [][/\ lastOp' = "unknownHandle"
            => /\ UNCHANGED playerVars
               /\ call'.export \in {"GetCurrentTime", "GetVolume"}
                    => call'.ret = RetFloat(FZero)
               /\ call'.export \in {"GetLoop", "IsPlaying"}
                    => call'.ret = RetBool(FALSE)
               /\ call'.export = "GetState"
                    => call'.ret = RetState(AUDIO_STATE_IDLE)
       /\ ~alive => UNCHANGED playerVars]_vars

C17_Witness ==
    /\ lastOp = "unknownHandle"
    /\ ~alive
    /\ call.handle = PlayerHandle
    /\ call.export = "GetState"
    /\ m_state = AUDIO_STATE_PLAYING
    /\ call.ret = RetState(AUDIO_STATE_IDLE)

\* C18: onErrorAfterClose leaves the player Stopped whatever its state was,
\* and does nothing to the stream (which the device has closed), the
\* position or the threads.
C18_ErrorStops ==
    [][lastOp' = "onErrorAfterClose"
        => /\ m_state' = AUDIO_STATE_STOPPED
           /\ m_audioStream' = [m_audioStream EXCEPT !.status = "closed"]
           /\ UNCHANGED <<opened, leaked, m_currentTime, m_delayThread,
                          callerPc>>]_vars

C18_Witness ==
    /\ lastOp = "onErrorAfterClose"
    /\ pre.state = AUDIO_STATE_PAUSED
    /\ m_state = AUDIO_STATE_STOPPED
    /\ m_audioStream.status = "closed"

\* C19: a callback asked for numFrames frames leaves exactly
\* numFrames * outputChannels samples in the buffer.
C19_FillsBufferExactly ==
    lastOp = "onAudioReady"
    => Len(out) = call.numFrames * m_audioStream.channels

\* C20: in every state 0 <= position <= getMusicLength().
C20_PositionInClip ==
    /\ FGeq(m_currentTime, FZero)
    /\ FGeq(getMusicLength, m_currentTime)

\* C21: the player holds a stream only while its state is Playing or Paused:
\* after stop, after the end of the clip, after a device error and after a
\* failed start no stream is held.
C21_StreamOnlyWhilePlaying ==
    m_audioStream # NoStream
    => m_state \in {AUDIO_STATE_PLAYING, AUDIO_STATE_PAUSED}

\* the streams of the player that are open: those it let go of without
\* close(), and the one it holds unless the device has closed it
OpenStreams ==
    leaked + (IF m_audioStream.id # 0 /\ m_audioStream.status # "closed"
              THEN 1 ELSE 0)

\* C22: at most one stream of the player is open at any time, however the
\* play() calls of the host and the play() of the delay worker interleave.
C22_AtMostOneStream == OpenStreams <= 1

\* the sample rate, channel count, frame count and sample buffer the player
\* holds all come from one clip
WholeClip ==
    /\ m_interleavedData.len = m_totalFrames * m_channels
    /\ m_interleavedData.clip # NoClip
        => /\ m_sampleRate = m_interleavedData.clip.rate
           /\ m_channels = m_interleavedData.clip.channels
           /\ m_totalFrames = m_interleavedData.clip.frames

\* C23: a callback that runs while a clip is being loaded reads either the
\* old clip or the new one as a whole, and every sample it copies lies
\* inside the sample buffer.
C23_CallbackSeesWholeClip ==
    [][lastOp' = "onAudioReady"
        => /\ WholeClip
           /\ \A k \in DOMAIN out' :
                out'[k] # Silence
                => out'[k].src \in 0..(m_interleavedData.len - 1)]_vars

\* the worker of request r has called play()
Fired(r) == \E i \in 1..Len(delayLog.fired) : delayLog.fired[i] = r

\* the worker thread returns in this step
WorkerEnds == ThreadRunning /\ m_delayThread' = "finished"

\* C24: a delayed-play worker ends either by seeing the cancellation flag
\* set, without calling play(), or after its wait timed out by calling
\* play() once, and never calls play() having seen the flag set; a request
\* that is never cancelled eventually fires.
C24_WorkerFiresOnceOrNever ==
    /\ [][/\ WorkerEnds
            => lastOp' \in {"delayCancelled", "delaySkipped", "delayedPlay"}
          /\ (WorkerEnds /\ lastOp' \in {"delayCancelled", "delaySkipped"})
            => /\ m_delayCancelled
               /\ delayLog'.fired = delayLog.fired
               /\ UNCHANGED <<m_state, m_audioStream, opened, leaked>>
          /\ (WorkerEnds /\ lastOp' = "delayedPlay")
            => /\ ~m_delayCancelled
               /\ m_delayThread = "expired"
               /\ ~Fired(delayLog.worker)
               /\ delayLog'.fired = Append(delayLog.fired, delayLog.worker)
          /\ ~WorkerEnds => delayLog'.fired = delayLog.fired]_vars
    /\ \A r \in 1..MaxDelayRequests :
        (delayLog.requests >= r) ~> (Fired(r) \/ m_delayCancelled)

C24_Witness ==
    /\ lastOp = "delaySkipped"
    /\ m_delayCancelled
    /\ delayLog.worker = 2
    /\ delayLog.fired = <<1>>
    /\ m_delayThread = "finished"

\* position p after k more callbacks of 512 frames on a 48000 Hz stream
RECURSIVE Advance(_, _)
Advance(p, k) ==
    IF k = 0 THEN p
    ELSE CHOOSE t \in
            {Advance(FAdd(q, FDiv(FromInt(512), FromInt(48000))), k - 1) :
                q \in {p}} : TRUE

\* the position after k such callbacks from 0, worked out 24 at a time
RECURSIVE PositionAfter(_)
PositionAfter(k) ==
    IF k <= 24 THEN Advance(FZero, k)
    ELSE Advance(PositionAfter(k - 24), 24)

LongRun == [k \in 0..94 |-> PositionAfter(k)]

\* the callback about to run mixes the clip without looping
MixesNoLoop ==
    /\ lastOp' = "onAudioReady"
    /\ m_state = AUDIO_STATE_PLAYING
    /\ ClipLoaded
    /\ ~m_loop

\* C25: a non-looping callback with 0 < remaining < numFrames leaves the
\* remaining source frames, volume-scaled, followed by silence up to
\* numFrames frames, and advances the position by numFrames / sampleRate.
\* On the 48000-frame mono clip at 48000 Hz played from 0 in callbacks of
\* 512 frames, the first 93 callbacks are filled from the clip and the 94th
\* has 384 frames of the clip and 128 of silence, ends Stopped and returns
\* Stop.
C25_LastCallbackPadded ==
    [][LET numFrames == call'.numFrames
           oc        == m_audioStream.channels
           remaining == m_totalFrames - CurrentFrame
       IN /\ (MixesNoLoop /\ 0 < remaining /\ remaining < numFrames)
             => /\ Len(out') = numFrames * oc
                /\ \A k \in 1..Len(out') :
                     LET i == (k - 1) \div oc
                         c == (k - 1) % oc
                     IN out'[k] =
                          IF i < remaining
                          THEN Sample((CurrentFrame + i) * m_channels
                                        + (c % m_channels))
                          ELSE Silence
                /\ m_currentTime' =
                     FAdd(m_currentTime,
                          FDiv(FromInt(numFrames),
                               FromInt(m_audioStream.rate)))
          /\ \A n \in 0..93 :
               (/\ MixesNoLoop
                /\ m_interleavedData.clip = LongClip
                /\ numFrames = 512
                /\ m_currentTime = LongRun[n])
               => /\ m_currentTime' = LongRun[n + 1]
                  /\ IF n < 93
                     THEN /\ remaining >= 512
                          /\ \A k \in 1..Len(out') : out'[k] # Silence
                          /\ m_state' = AUDIO_STATE_PLAYING
                          /\ cbResult' = "Continue"
                     ELSE /\ remaining = 384
                          /\ \A k \in 1..Len(out') :
                               (out'[k] = Silence) <=> (k > 384 * oc)
                          /\ Len(out') = (384 + 128) * oc
                          /\ m_state' = AUDIO_STATE_STOPPED
                          /\ cbResult' = "Stop"]_vars

C25_Witness ==
    /\ lastOp = "onAudioReady"
    /\ call.numFrames = 512
    /\ m_interleavedData.clip = LongClip
    /\ m_audioStream.channels = 1
    /\ m_currentTime = LongRun[94]
    /\ m_state = AUDIO_STATE_STOPPED
    /\ cbResult = "Stop"
    /\ Len(out) = 512
    /\ out[384].src = 47999
    /\ out[384].vol = FDiv(FromInt(1), FromInt(2))
    /\ out[385] = Silence

\* a callback completes in this step, the control call op having run since
\* the callback read the position
CompletesAfter(op) ==
    /\ inFlight # NoCallback
    /\ inFlight' = NoCallback
    /\ lastOp = op

\* C26: a stop() or a seek that runs while a callback is under way is not
\* undone by the callback: when the callback has completed after stop() the
\* state is Stopped and the position is 0, and after setCurrentTime or
\* resetTime the position is the one the seek wrote.
C26_ControlWriteNotLost ==
    [][/\ CompletesAfter("stop")
            => /\ m_state' = AUDIO_STATE_STOPPED
               /\ m_currentTime' = FZero
       /\ (CompletesAfter("setCurrentTime") \/ CompletesAfter("resetTime"))
            => m_currentTime' = m_currentTime]_vars

\* C27: setVolume, setLoop, setCurrentTime, offsetTime and resetTime leave
\* the state and the stream as they are (nothing opened, closed, started or
\* stopped); setVolume and setLoop also leave the position as it is.
C27_SettersKeepTransport ==
    [][/\ lastOp' \in {"setVolume", "setLoop", "setCurrentTime",
                       "offsetTime", "resetTime"}
            => UNCHANGED <<m_state, m_audioStream, opened, leaked>>
       /\ lastOp' \in {"setVolume", "setLoop"}
            => UNCHANGED m_currentTime]_vars

C27_Witness ==
    /\ lastOp = "resetTime"
    /\ pre.state = AUDIO_STATE_PAUSED
    /\ m_state = AUDIO_STATE_PAUSED
    /\ m_audioStream.status = "paused"
    /\ m_volume = FDiv(FromInt(1), FromInt(2))
    /\ m_loop
    /\ ClipLoaded
    /\ m_currentTime = FZero

\* the host has called ResetTime / RestartTime: the C export (which records
\* no export name) or the JNI binding
CalledResetTime ==
    \/ lastOp' = "resetTime" /\ call'.export = ""
    \/ call'.export = "Java_net_blophy_nova_oboe_MainActivity_ResetTime"

CalledRestartTime ==
    \/ lastOp' = "restartTime" /\ call'.export = ""
    \/ call'.export = "Java_net_blophy_nova_oboe_MainActivity_RestartTime"

\* C28: the entry point ResetTime only sets the position to 0 and leaves the
\* state and the stream alone, and the entry point RestartTime does what
\* restartTime() does (position 0, and stop then play when Playing), for the
\* C exports and the JNI bindings alike.
C28_EntryPointsMatch ==
    [][/\ CalledResetTime
            => /\ m_currentTime' = FZero
               /\ UNCHANGED <<m_state, m_audioStream, opened, leaked>>
       /\ CalledRestartTime
            => \E openOK, startOK \in BOOLEAN :
                    Player' = restartTime(Player, openOK, startOK)]_vars

====
